---- MODULE Spec2Model ----
(***************************************************************************)
(* State-machine model of src/snake-game.tsx (the SnakeGame component).    *)
(*                                                                         *)
(* The React state cells (useState) are the variables; every event handler *)
(* (keydown listener, touch buttons, Start / Play Again buttons, the       *)
(* difficulty select, the interval callback) is one action.  An action     *)
(* carries the whole reaction to the event: the handler's state updates,   *)
(* the re-render they cause and the effect cleanups and effects that the   *)
(* re-render runs (lines 96-140), because React flushes them before the    *)
(* next event is handled.                                                  *)
(*                                                                         *)
(* The browser's table of active intervals is the variable `timers`; each  *)
(* entry keeps the id setInterval returned, the period it was scheduled    *)
(* with, and the moveSnake closure (the render's values of its             *)
(* dependencies) it will call.                                             *)
(***************************************************************************)
EXTENDS Integers, Sequences, FiniteSets, TLC

VARIABLES
    snake,            \* useState<Position[]>, line 26 (head first)
    direction,        \* useState<Direction>, line 27
    food,             \* useState<Position>, line 28
    gameOver,         \* useState(false), line 29
    score,            \* useState(0), line 30
    isPlaying,        \* useState(false), line 33
    difficulty,       \* useState<Difficulty>, line 34
    gameIntervalRef,  \* useRef<NodeJS.Timeout | null>, line 36 (.current)
    timers,           \* the intervals setInterval created and clearInterval has not cleared
    lastHeading       \* history: the heading the session's last tick stepped by

vars == <<snake, direction, food, gameOver, score, isPlaying, difficulty,
          gameIntervalRef, timers, lastHeading>>

----------------------------------------------------------------------------
(* Bounds of the model.                                                    *)

\* Side of the grid.  The source sets 20 (line 14); the model checks a
\* smaller torus that still holds the start cell (5,5).
GRID_SIZE == 6

\* Math.random() is an input: the model draws a random position from the
\* MaxRandom last cells of the grid in row-major order (the start cell's
\* row, from the right edge leftwards).
MaxRandom == 4

\* The score is capped: a tick that would eat food at MaxScore is not taken.
MaxScore == 3

----------------------------------------------------------------------------
(* Constants of the program.                                               *)

NULL == 0

\* No tick yet in this session.
NONE == "NONE"

Direction == {"UP", "DOWN", "LEFT", "RIGHT"}

Difficulty == {"Easy", "Normal", "Hard"}

INITIAL_SNAKE == << <<5, 5>> >>

INITIAL_DIRECTION == "RIGHT"

GAME_SPEEDS == [Easy |-> 200, Normal |-> 150, Hard |-> 100]

\* The keys the keydown listener may receive: the four it handles and one
\* that falls through the switch.
Keys == {"ArrowUp", "ArrowDown", "ArrowLeft", "ArrowRight", "Enter"}

----------------------------------------------------------------------------
(* Pure helpers.                                                           *)

\* Math.floor(Math.random() * GRID_SIZE)
RandomCoords == 0..(GRID_SIZE - 1)

\* The positions one call of getRandomPosition() may return.
getRandomPosition ==
    {p \in RandomCoords \X RandomCoords :
        p[1] + GRID_SIZE * p[2] >= GRID_SIZE * GRID_SIZE - MaxRandom}

\* Faulty variant of NewHead: the step is not wrapped at the edges.
NewHeadNoWrap(head, dir) ==
    CASE dir = "UP"    -> <<head[1], head[2] - 1>>
      [] dir = "DOWN"  -> <<head[1], head[2] + 1>>
      [] dir = "LEFT"  -> <<head[1] - 1, head[2]>>
      [] dir = "RIGHT" -> <<head[1] + 1, head[2]>>

\* The switch of moveSnake: one step from the head, wrapped on both axes.
NewHead(head, dir) ==
    CASE dir = "UP"    -> <<head[1], (head[2] - 1 + GRID_SIZE) % GRID_SIZE>>
      [] dir = "DOWN"  -> <<head[1], (head[2] + 1) % GRID_SIZE>>
      [] dir = "LEFT"  -> <<(head[1] - 1 + GRID_SIZE) % GRID_SIZE, head[2]>>
      [] dir = "RIGHT" -> <<(head[1] + 1) % GRID_SIZE, head[2]>>

\* Faulty variant of SelfCollision: the check is missing.
SelfCollisionNever(s, newHead) == FALSE

\* Faulty variant of SelfCollision: the check made after the tail is dropped,
\* so the cell the tail is leaving does not count.
SelfCollisionAfterPop(s, newHead) ==
    \E index \in 1..(Len(s) - 1) : index # 1 /\ s[index] = newHead

\* newSnake.some((segment, index) => index !== 0 && segment equals newHead)
SelfCollision(s, newHead) ==
    \E index \in 1..Len(s) : index # 1 /\ s[index] = newHead

\* Faulty variant of Pop: shift() instead of pop(), the head is dropped.
PopHead(s) == SubSeq(s, 2, Len(s))

\* Faulty variant of Pop: the tail is never dropped.
PopNothing(s) == s

\* newSnake.pop(): all but the last element.
Pop(s) == SubSeq(s, 1, Len(s) - 1)

\* Faulty variant of KeyUpdater: the reversal test is missing.
KeyUpdaterUnchecked(key, prev) ==
    CASE key = "ArrowUp"    -> "UP"
      [] key = "ArrowDown"  -> "DOWN"
      [] key = "ArrowLeft"  -> "LEFT"
      [] key = "ArrowRight" -> "RIGHT"
      [] OTHER              -> prev

\* The updater functions handleKeyPress passes to setDirection.
KeyUpdater(key, prev) ==
    CASE key = "ArrowUp"    -> IF prev # "DOWN"  THEN "UP"    ELSE prev
      [] key = "ArrowDown"  -> IF prev # "UP"    THEN "DOWN"  ELSE prev
      [] key = "ArrowLeft"  -> IF prev # "RIGHT" THEN "LEFT"  ELSE prev
      [] key = "ArrowRight" -> IF prev # "LEFT"  THEN "RIGHT" ELSE prev
      [] OTHER              -> prev

\* The condition under which handleTouchStart returns without setDirection.
TouchRejected(cur, newDirection) ==
    \/ cur = "UP" /\ newDirection = "DOWN"
    \/ cur = "DOWN" /\ newDirection = "UP"
    \/ cur = "LEFT" /\ newDirection = "RIGHT"
    \/ cur = "RIGHT" /\ newDirection = "LEFT"

----------------------------------------------------------------------------
(* Timers and effects.                                                     *)

\* clearInterval(id)
ClearInterval(ts, id) == {t \in ts : t.id # id}

\* The id setInterval returns.  Ids are only compared for equality and the
\* ref is overwritten with the new id at once (line 133), so the smallest
\* id no active interval has stands for a fresh one.
FreshId(ts) ==
    CHOOSE i \in 1..(Cardinality(ts) + 1) :
        /\ \A t \in ts : t.id # i
        /\ \A j \in 1..(i - 1) : \E t \in ts : t.id = j

\* Faulty variant of EffectCleanup: the effects return no cleanup.
EffectCleanupMissing(ts, ref) == ts

\* The cleanup both effects return: clear the interval the ref names.
EffectCleanup(ts, ref) ==
    IF ref # NULL THEN ClearInterval(ts, ref) ELSE ts

\* The moveSnake callback a render creates: the values it closes over.
Closure(s, d, f, g, p) ==
    [snake |-> s, direction |-> d, food |-> f, gameOver |-> g, isPlaying |-> p]

\* The interval effect's body: while playing, clear the ref's interval and
\* start one for the render's moveSnake at the difficulty's period.
\* Returns <<ref, timers>>.
IntervalEffect(ts, ref, playing, diff, fn) ==
    IF playing
    THEN LET cleared == IF ref # NULL THEN ClearInterval(ts, ref) ELSE ts
             id == FreshId(cleared)
         IN <<id, cleared \cup {[id |-> id, period |-> GAME_SPEEDS[diff], fn |-> fn]}>>
    ELSE <<ref, ts>>

\* The re-render after a handler.  `changed`: a dependency of the interval
\* effect (isPlaying, difficulty, moveSnake) differs from the last render's.
Render(changed) ==
    IF changed
    THEN LET cleaned == EffectCleanup(timers, gameIntervalRef)
             res == IntervalEffect(cleaned, gameIntervalRef, isPlaying', difficulty',
                                   Closure(snake', direction', food', gameOver', isPlaying'))
         IN /\ gameIntervalRef' = res[1]
            /\ timers' = res[2]
    ELSE UNCHANGED <<gameIntervalRef, timers>>

----------------------------------------------------------------------------
(* Initial state: the component mounted, the mount effect of lines 142-144 *)
(* has placed the first food; no interval is running.                      *)

Init ==
    /\ snake = INITIAL_SNAKE
    /\ direction = INITIAL_DIRECTION
    /\ food \in getRandomPosition
    /\ gameOver = FALSE
    /\ score = 0
    /\ isPlaying = FALSE
    /\ difficulty = "Normal"
    /\ gameIntervalRef = NULL
    /\ timers = {}
    /\ lastHeading = NONE

----------------------------------------------------------------------------
(* The interval callback: moveSnake, as closed over by the render that     *)
(* scheduled it (c), lines 54-94.                                          *)

\* Line 55: the callback returns at once.
MoveSnakeIdle(c) ==
    /\ c.gameOver \/ ~c.isPlaying
    /\ UNCHANGED <<snake, direction, food, gameOver, score, isPlaying, difficulty>>
    /\ UNCHANGED lastHeading
    /\ Render(FALSE)

\* Faulty variant of MoveSnakeCollide: the early return of line 80 is
\* missing, so the colliding tick goes on to move the snake.
MoveSnakeCollideFallsThrough(c) ==
    /\ ~(c.gameOver \/ ~c.isPlaying)
    /\ SelfCollision(c.snake, NewHead(c.snake[1], c.direction))
    /\ gameOver' = TRUE
    /\ isPlaying' = FALSE
    /\ snake' = Pop(<<NewHead(c.snake[1], c.direction)>> \o c.snake)
    /\ UNCHANGED <<direction, food, score, difficulty>>
    /\ lastHeading' = c.direction
    /\ Render(TRUE)

\* Faulty variant of MoveSnakeCollide: setIsPlaying(false) of line 79 is
\* missing.
MoveSnakeCollideStillPlaying(c) ==
    /\ ~(c.gameOver \/ ~c.isPlaying)
    /\ SelfCollision(c.snake, NewHead(c.snake[1], c.direction))
    /\ gameOver' = TRUE
    /\ UNCHANGED <<snake, direction, food, score, isPlaying, difficulty>>
    /\ lastHeading' = c.direction
    /\ Render(gameOver' # gameOver)

\* Lines 77-81: the new head is on the body.
MoveSnakeCollide(c) ==
    /\ ~(c.gameOver \/ ~c.isPlaying)
    /\ SelfCollision(c.snake, NewHead(c.snake[1], c.direction))
    /\ gameOver' = TRUE
    /\ isPlaying' = FALSE
    /\ UNCHANGED <<snake, direction, food, score, difficulty>>
    /\ lastHeading' = c.direction
    /\ Render(gameOver' # gameOver \/ isPlaying' # isPlaying)

\* Faulty variant of MoveSnakeEat: push() instead of unshift(), the new
\* head is appended after the tail.
MoveSnakeEatPush(c) ==
    /\ ~(c.gameOver \/ ~c.isPlaying)
    /\ ~SelfCollision(c.snake, NewHead(c.snake[1], c.direction))
    /\ NewHead(c.snake[1], c.direction) = c.food
    /\ score < MaxScore
    /\ food' \in getRandomPosition
    /\ score' = score + 1
    /\ snake' = c.snake \o <<NewHead(c.snake[1], c.direction)>>
    /\ UNCHANGED <<direction, gameOver, isPlaying, difficulty>>
    /\ lastHeading' = c.direction
    /\ Render(TRUE)

\* Lines 83-88 and 93: the head lands on the food.
MoveSnakeEat(c) ==
    /\ ~(c.gameOver \/ ~c.isPlaying)
    /\ ~SelfCollision(c.snake, NewHead(c.snake[1], c.direction))
    /\ NewHead(c.snake[1], c.direction) = c.food
    /\ score < MaxScore
    /\ food' \in getRandomPosition
    /\ score' = score + 1
    /\ snake' = <<NewHead(c.snake[1], c.direction)>> \o c.snake
    /\ UNCHANGED <<direction, gameOver, isPlaying, difficulty>>
    /\ lastHeading' = c.direction
    /\ Render(TRUE)

\* Lines 83, 89-93: a plain step, the tail is dropped.
MoveSnakeStep(c) ==
    /\ ~(c.gameOver \/ ~c.isPlaying)
    /\ ~SelfCollision(c.snake, NewHead(c.snake[1], c.direction))
    /\ NewHead(c.snake[1], c.direction) # c.food
    /\ snake' = Pop(<<NewHead(c.snake[1], c.direction)>> \o c.snake)
    /\ UNCHANGED <<direction, food, gameOver, score, isPlaying, difficulty>>
    /\ lastHeading' = c.direction
    /\ Render(TRUE)

moveSnake(c) ==
    \/ MoveSnakeIdle(c)
    \/ MoveSnakeCollide(c)
    \/ MoveSnakeEat(c)
    \/ MoveSnakeStep(c)

\* An active interval fires and calls the moveSnake it was given.
Tick == \E t \in timers : moveSnake(t.fn)

----------------------------------------------------------------------------
(* Direction requests.                                                     *)

\* Faulty variant of handleKeyPress: the isPlaying guard of line 98 is
\* missing.
handleKeyPressUnguarded(key) ==
    /\ direction' = KeyUpdater(key, direction)
    /\ UNCHANGED <<snake, food, gameOver, score, isPlaying, difficulty>>
    /\ UNCHANGED lastHeading
    /\ Render(direction' # direction)

\* Faulty variant of handleKeyPress: an accepted key also steps the snake at
\* once instead of leaving the step to the next tick.
handleKeyPressSteps(key) ==
    /\ direction' = IF ~isPlaying THEN direction ELSE KeyUpdater(key, direction)
    /\ snake' = IF isPlaying /\ direction' # direction
                THEN Pop(<<NewHead(snake[1], direction')>> \o snake)
                ELSE snake
    /\ UNCHANGED <<food, gameOver, score, isPlaying, difficulty>>
    /\ UNCHANGED lastHeading
    /\ Render(direction' # direction)

\* The keydown listener, lines 97-113.
handleKeyPress(key) ==
    /\ direction' = IF ~isPlaying THEN direction ELSE KeyUpdater(key, direction)
    /\ UNCHANGED <<snake, food, gameOver, score, isPlaying, difficulty>>
    /\ UNCHANGED lastHeading
    /\ Render(direction' # direction)

\* The on-screen arrow buttons, lines 155-167.  They are rendered only while
\* playing (line 258); the handler's own guard is what the model keeps.
handleTouchStart(newDirection) ==
    /\ direction' = IF ~isPlaying \/ TouchRejected(direction, newDirection)
                    THEN direction ELSE newDirection
    /\ UNCHANGED <<snake, food, gameOver, score, isPlaying, difficulty>>
    /\ UNCHANGED lastHeading
    /\ Render(direction' # direction)

----------------------------------------------------------------------------
(* Session commands.                                                       *)

\* Faulty variant of ResetUpdates: setGameOver(false) of line 150 is missing.
ResetUpdatesKeepsGameOver ==
    /\ snake' = INITIAL_SNAKE
    /\ direction' = INITIAL_DIRECTION
    /\ food' \in getRandomPosition
    /\ UNCHANGED gameOver
    /\ score' = 0
    /\ isPlaying' = TRUE
    /\ lastHeading' = NONE

\* The state updates of resetGame, lines 146-153.  setFood is given a new
\* array, so moveSnake is always re-created by the render that follows.
ResetUpdates ==
    /\ snake' = INITIAL_SNAKE
    /\ direction' = INITIAL_DIRECTION
    /\ food' \in getRandomPosition
    /\ gameOver' = FALSE
    /\ score' = 0
    /\ isPlaying' = TRUE
    /\ lastHeading' = NONE

\* The "Play Again" button (line 304), rendered while gameOver.
resetGame ==
    /\ gameOver
    /\ ResetUpdates
    /\ UNCHANGED difficulty
    /\ Render(TRUE)

\* The "Start Game" button (line 312), rendered while neither playing nor
\* over; lines 169-172.
startGame ==
    /\ ~gameOver /\ ~isPlaying
    /\ ResetUpdates
    /\ UNCHANGED difficulty
    /\ Render(TRUE)

\* Faulty variant of handleDifficultyChange: the isPlaying test of line 176
\* is missing, the session is reset in every state.
handleDifficultyChangeAlwaysResets(value) ==
    /\ difficulty' = value
    /\ ResetUpdates
    /\ Render(TRUE)

\* Faulty variant of handleDifficultyChange: the session is never reset.
handleDifficultyChangeNoReset(value) ==
    /\ difficulty' = value
    /\ UNCHANGED <<snake, direction, food, gameOver, score, isPlaying, lastHeading>>
    /\ Render(difficulty' # difficulty)

\* The difficulty select, lines 174-179.
handleDifficultyChange(value) ==
    /\ difficulty' = value
    /\ IF isPlaying
       THEN ResetUpdates /\ Render(TRUE)
       ELSE /\ UNCHANGED <<snake, direction, food, gameOver, score, isPlaying, lastHeading>>
            /\ Render(difficulty' # difficulty)

----------------------------------------------------------------------------

Next ==
    \/ Tick
    \/ \E key \in Keys : handleKeyPress(key)
    \/ \E newDirection \in Direction : handleTouchStart(newDirection)
    \/ resetGame
    \/ startGame
    \/ \E value \in Difficulty : handleDifficultyChange(value)

Spec == Init /\ [][Next]_vars

----------------------------------------------------------------------------
(* The clock under its scheduling guarantee.                               *)

\* The interval whose callback closes over heading d fires.
TickWith(d) == \E t \in timers : t.fn.direction = d /\ moveSnake(t.fn)

\* The session without the difficulty select: ticks, direction requests,
\* start and restart.
NextPlay ==
    \/ Tick
    \/ \E key \in Keys : handleKeyPress(key)
    \/ \E newDirection \in Direction : handleTouchStart(newDirection)
    \/ resetGame
    \/ startGame

\* setInterval's guarantee: an interval that stays scheduled fires.  An
\* interval's callback is fixed when it is created (line 133), so an
\* interval whose callback changes is another interval; with at most one
\* interval scheduled, fairness per callback heading implies fairness per
\* interval.
SpecClock ==
    /\ Init
    /\ [][NextPlay]_vars
    /\ \A d \in Direction : WF_vars(TickWith(d))

----------------------------------------------------------------------------
(* Vocabulary of the properties.                                           *)

Cells(s) == {s[i] : i \in 1..Len(s)}

Opposite(h) ==
    CASE h = "UP" -> "DOWN" [] h = "DOWN" -> "UP"
      [] h = "LEFT" -> "RIGHT" [] h = "RIGHT" -> "LEFT"
      [] OTHER -> NONE

\* The heading an arrow key asks for.
KeyHeading(key) ==
    CASE key = "ArrowUp" -> "UP" [] key = "ArrowDown" -> "DOWN"
      [] key = "ArrowLeft" -> "LEFT" [] key = "ArrowRight" -> "RIGHT"

ArrowKeys == Keys \ {"Enter"}

\* The arbiter's contract: a reversal keeps the current heading, any other
\* request is taken.
Propose(current, requested) ==
    IF requested = Opposite(current) THEN current ELSE requested

Playing == isPlaying /\ ~gameOver

\* A step that places food: start, restart (also from the difficulty
\* select while playing), or a tick that eats.
PlacesFood ==
    \/ startGame
    \/ resetGame
    \/ isPlaying /\ \E value \in Difficulty : handleDifficultyChange(value)
    \/ \E t \in timers : MoveSnakeEat(t.fn)

\* The head the next tick computes.
NextHead == NewHead(snake[1], direction)

----------------------------------------------------------------------------
(* Properties.                                                             *)

\* C1: whenever food is placed (start, restart, after eating) the cell
\* chosen is not a cell of the snake as it is after that step.
C1_FoodPlacedOffSnake ==
    [][PlacesFood => food' \notin Cells(snake')]_vars

\* C2: the heading a tick steps by is never the opposite of the heading
\* the previous tick of the session stepped by, whatever requests arrived
\* in between.
C2_NoReversalBetweenTicks ==
    [][(lastHeading # NONE /\ lastHeading' # NONE)
          => lastHeading' # Opposite(lastHeading)]_vars

\* C3: a tick while playing whose new head is on the snake ends the
\* session and changes nothing else: snake, score and food stay.
C3_CollisionOnlyEndsSession ==
    [][(Playing /\ Tick /\ NextHead \in Cells(snake))
          => (gameOver' /\ ~isPlaying' /\ UNCHANGED <<snake, score, food>>)]_vars

C3_Witness ==
    /\ gameOver /\ ~isPlaying
    /\ Len(snake) >= 3
    /\ NextHead \in Cells(snake)
    /\ lastHeading = direction

\* C4: for a snake of length >= 2, a tick whose new head is the cell the
\* tail occupies is a collision and ends the session.
C4_TailCellCollides ==
    [][(Playing /\ Tick /\ Len(snake) >= 2 /\ NextHead = snake[Len(snake)])
          => (gameOver' /\ ~isPlaying')]_vars

\* The head chased the tail round a square: no reversal is involved.
C4_Witness ==
    /\ gameOver
    /\ Len(snake) = 4
    /\ NextHead = snake[4]
    /\ lastHeading = direction

\* C5: while gameOver, no step but the restart changes snake or score.
C5_FrozenUntilRestart ==
    [][(gameOver /\ ~resetGame) => UNCHANGED <<snake, score>>]_vars

\* Game over with a grown snake, and the difficulty select used since.
C5_Witness ==
    /\ gameOver
    /\ score >= 1
    /\ difficulty # "Normal"
    /\ timers = {}

\* C6: a tick while playing grows the snake by one and adds one to the
\* score exactly when its new head is the food cell, and otherwise keeps
\* both; no other step than a tick or a reset changes the score.
C6_GrowthIffFood ==
    [][/\ (Playing /\ Tick) =>
            /\ Len(snake') = Len(snake) + (IF NextHead = food THEN 1 ELSE 0)
            /\ score' = score + (IF NextHead = food THEN 1 ELSE 0)
       /\ score' # score => (Tick \/ score' = 0)]_vars

\* C7: the snake's length is the initial length plus the score.
C7_LengthIsScorePlusOne ==
    Len(snake) = Len(INITIAL_SNAKE) + score

C7_Witness ==
    /\ isPlaying
    /\ score = 2
    /\ Len(snake) = 3

\* C8: while playing, both input paths follow the arbiter: a request for
\* the opposite of the current heading leaves it, any other is taken.
C8_ArbiterAgrees ==
    /\ \A key \in ArrowKeys :
          KeyUpdater(key, direction) = Propose(direction, KeyHeading(key))
    /\ \A newDirection \in Direction :
          (IF TouchRejected(direction, newDirection) THEN direction ELSE newDirection)
             = Propose(direction, newDirection)

C8_DirectionRequests ==
    /\ [](isPlaying => C8_ArbiterAgrees)
    /\ [][/\ \A key \in ArrowKeys :
              (isPlaying /\ handleKeyPress(key))
                 => direction' = Propose(direction, KeyHeading(key))
           /\ \A newDirection \in Direction :
              (isPlaying /\ handleTouchStart(newDirection))
                 => direction' = Propose(direction, newDirection)]_vars

\* A request was taken (only requests move the heading off RIGHT) and the
\* snake has stepped by it.
C8_Witness ==
    /\ isPlaying
    /\ direction = "LEFT"
    /\ lastHeading = "UP"

\* C9: the difficulty select used while playing restarts the session with
\* the chosen difficulty.
C9_DifficultyRestarts ==
    [][\A value \in Difficulty :
          (isPlaying /\ handleDifficultyChange(value))
             => /\ score' = 0
                /\ snake' = << <<5, 5>> >>
                /\ direction' = "RIGHT"
                /\ isPlaying' /\ ~gameOver'
                /\ difficulty' = value]_vars

C9_Witness ==
    /\ isPlaying
    /\ difficulty = "Hard"
    /\ score = 0 /\ snake = INITIAL_SNAKE /\ lastHeading = NONE
    /\ \E t \in timers : t.period = 100

\* C10: at most one interval is active, it is the one the ref names and
\* it runs at the current difficulty's period; none is active when the
\* session is over or not started.
C10_OneTimer ==
    /\ Cardinality(timers) <= 1
    /\ \A t \in timers : t.id = gameIntervalRef /\ t.period = GAME_SPEEDS[difficulty]
    /\ ~isPlaying => timers = {}

\* Game over after a difficulty change: no interval is left.
C10_Witness ==
    /\ gameOver
    /\ difficulty = "Easy"
    /\ gameIntervalRef # NULL
    /\ timers = {}

\* The session state the two flags encode.
SessionState ==
    IF gameOver THEN "GameOver" ELSE IF isPlaying THEN "Playing" ELSE "NotStarted"

\* A direction request of either input path.
DirectionRequest ==
    \/ \E key \in Keys : handleKeyPress(key)
    \/ \E newDirection \in Direction : handleTouchStart(newDirection)

\* C11: from GameOver the restart, and from NotStarted the start, is
\* enabled and leads to Playing with the snake on the start cell (5,5),
\* heading RIGHT and score 0; and once the session is over it stays over
\* until the restart, so a session enters GameOver at most once.
C11_Recoverable ==
    /\ [](gameOver => ENABLED resetGame)
    /\ [](SessionState = "NotStarted" => ENABLED startGame)
    /\ [][(resetGame \/ startGame)
             => /\ isPlaying' /\ ~gameOver'
                /\ snake' = << <<5, 5>> >>
                /\ direction' = "RIGHT"
                /\ score' = 0]_vars
    /\ [][(gameOver /\ ~gameOver') => resetGame]_vars

\* A session that ended with a grown snake, from which the restart is
\* enabled.
C11_Witness ==
    /\ gameOver
    /\ Len(snake) >= 2
    /\ ENABLED resetGame

\* C12: the session state moves only NotStarted -> Playing by the start,
\* Playing -> GameOver by a colliding tick, GameOver -> Playing by the
\* restart (and Playing -> Playing); never back to NotStarted, never from
\* NotStarted to GameOver.
C12_DocumentedTransitions ==
    [][/\ (SessionState = "NotStarted" /\ SessionState' = "Playing") => startGame
       /\ (SessionState = "Playing" /\ SessionState' = "GameOver")
             => (Tick /\ NextHead \in Cells(snake))
       /\ (SessionState = "GameOver" /\ SessionState' = "Playing") => resetGame
       /\ SessionState # "NotStarted" => SessionState' # "NotStarted"
       /\ SessionState = "NotStarted" => SessionState' # "GameOver"]_vars

\* The session has been started, has run and has ended on a collision.
C12_Witness ==
    /\ SessionState = "GameOver"
    /\ lastHeading # NONE
    /\ difficulty = "Normal"

\* C13: while not playing no direction request changes anything: no key
\* and no touch has a successor state that differs from the current one.
C13_RequestIgnoredWhenNotPlaying ==
    ~isPlaying =>
        /\ \A key \in Keys : ~ENABLED <<handleKeyPress(key)>>_vars
        /\ \A newDirection \in Direction :
              ~ENABLED <<handleTouchStart(newDirection)>>_vars

\* Game over while heading UP: a LEFT request would be taken if playing.
C13_Witness ==
    /\ gameOver /\ ~isPlaying
    /\ direction = "UP"
    /\ KeyUpdater("ArrowLeft", direction) # direction

\* C14: a direction request leaves snake, food, score and the session
\* flags alone; a step that changes one of them is a tick, a start, a
\* restart or a difficulty change.
C14_RequestOnlyRecordsHeading ==
    [][/\ DirectionRequest => UNCHANGED <<snake, food, score, gameOver, isPlaying>>
       /\ <<snake, food, score, gameOver, isPlaying>>'
               # <<snake, food, score, gameOver, isPlaying>>
             => \/ Tick \/ startGame \/ resetGame
                \/ \E value \in Difficulty : handleDifficultyChange(value)]_vars

\* A request was taken after a tick and the grown snake is as the tick left it.
C14_Witness ==
    /\ isPlaying
    /\ Len(snake) >= 2
    /\ lastHeading = "RIGHT"
    /\ direction = "DOWN"

\* One unit along an axis of the torus, as the glossary defines it: past
\* the last coordinate comes 0, before 0 comes the last coordinate.
Succ(x) == IF x = GRID_SIZE - 1 THEN 0 ELSE x + 1

Pred(x) == IF x = 0 THEN GRID_SIZE - 1 ELSE x - 1

StepOnTorus(cell, h) ==
    CASE h = "UP"    -> <<cell[1], Pred(cell[2])>>
      [] h = "DOWN"  -> <<cell[1], Succ(cell[2])>>
      [] h = "LEFT"  -> <<Pred(cell[1]), cell[2]>>
      [] h = "RIGHT" -> <<Succ(cell[1]), cell[2]>>

InGrid(cell) ==
    /\ cell[1] \in 0..(GRID_SIZE - 1)
    /\ cell[2] \in 0..(GRID_SIZE - 1)

\* A tick while playing that does not collide.
FreeTick == Playing /\ Tick /\ NextHead \notin Cells(snake)

\* C15: every cell of the snake is inside the grid; a tick that does not
\* collide puts the head one unit further on the torus, wrapping at every
\* edge and keeping the other axis, and is never refused at an edge.
C15_InsideGridByWrap ==
    /\ [](\A i \in 1..Len(snake) : InGrid(snake[i]))
    /\ [][FreeTick => snake'[1] = StepOnTorus(snake[1], direction)]_vars

\* The head has just crossed the right edge.
C15_Witness ==
    /\ isPlaying
    /\ lastHeading = "RIGHT"
    /\ snake[1][1] = 0
    /\ Len(snake) >= 2 /\ snake[2][1] = GRID_SIZE - 1

\* C16: the snake is never empty and no cell occurs in it twice.
C16_NonEmptyNoDuplicates ==
    /\ Len(snake) >= 1
    /\ \A i, j \in 1..Len(snake) : i # j => snake[i] # snake[j]

\* A snake of four cells that has turned.
C16_Witness ==
    /\ isPlaying
    /\ Len(snake) = 4
    /\ snake[1][1] # snake[4][1]
    /\ snake[1][2] # snake[4][2]

Adjacent(a, b) == \E h \in Direction : StepOnTorus(b, h) = a

\* C17: consecutive cells of the snake are neighbours on the torus.
C17_ConsecutiveCellsAdjacent ==
    \A i \in 1..(Len(snake) - 1) : Adjacent(snake[i], snake[i + 1])

\* A snake of three cells that lies across the top/bottom edge.
C17_Witness ==
    /\ Len(snake) = 3
    /\ \E i \in 1..2 : snake[i][2] = 0 /\ snake[i + 1][2] = GRID_SIZE - 1

\* C18: a tick while playing that does not collide puts the new head in
\* front; when the new head is not the food the last cell is dropped and
\* food and score stay, when it is the food nothing is dropped.
C18_StepOrGrow ==
    [][FreeTick =>
          IF NextHead # food
          THEN /\ snake' = <<NextHead>> \o SubSeq(snake, 1, Len(snake) - 1)
               /\ UNCHANGED <<food, score>>
          ELSE snake' = <<NextHead>> \o snake]_vars

\* The example's outcome: [(3,3),(2,3),(1,3)] stepped RIGHT.
C18_Witness ==
    /\ isPlaying
    /\ snake = << <<4, 3>>, <<3, 3>>, <<2, 3>> >>
    /\ lastHeading = "RIGHT"

\* The score cap of the model stops the tick that would eat at MaxScore.
CapBlocked == score = MaxScore /\ NextHead = food

\* C19: the clock runs independently of input: in a session that stays
\* playing, whatever direction requests arrive, ticks keep firing.
C19_TickEventuallyFires ==
    <>[](isPlaying /\ ~CapBlocked) => []<><<Tick>>_vars

\* C20: gameOver and isPlaying are never both set, and a tick changes
\* the snake only when isPlaying alone is set.
C20_FlagsExclusive ==
    /\ [](~(gameOver /\ isPlaying))
    /\ [][(Tick /\ snake' # snake) => (isPlaying /\ ~gameOver)]_vars

\* All three combinations occur; this one is GameOver after a tick moved
\* the snake of two cells and a later tick collided.
C20_Witness ==
    /\ gameOver /\ ~isPlaying
    /\ Len(snake) = 2
    /\ snake[1] # <<5, 5>> /\ snake[2] # <<5, 5>>

====
